---- MODULE Spec2Model ----
(***************************************************************************)
(* State-machine model of the native culling core:                        *)
(*   src/native/core/src/graph/mod.rs   Graph (cull_and_sort, the         *)
(*                                      frustum/fog pass, the BFS pass,   *)
(*                                      set_section / remove_section)     *)
(*   src/native/core/src/region.rs      region indices, RegionRenderList, *)
(*                                      StagingRegionRenderLists          *)
(*                                                                         *)
(* The 256^3 arrays of the Graph are held sparsely: a map stores only the *)
(* entries that differ from the value every other entry has, so the whole *)
(* grid is modelled with its real 8-bit coordinates and bit masks.        *)
(* LocalCoordContext, LocalNodeIndex, LinearBitOctree, GraphDirectionSet, *)
(* VisibilityData and ArrayDeque live outside the two source files; they  *)
(* are modelled from the specification text.                              *)
(***************************************************************************)
EXTENDS Integers, Sequences, FiniteSets, TLC

\* ------------------------------------------------------------------ bounds

\* largest view distance (in sections) a coord context of the model carries
MaxViewDistance == 1

\* ------------------------------------------------------- program constants

MAX_VIEW_DISTANCE == 127
MAX_WORLD_HEIGHT == 254
GRID_SIZE == 256
Y_ADD_SECTIONS == 4
I32_MIN == (-2147483647) - 1

\* ------------------------------------------------------------- bit helpers

RECURSIVE BitAnd(_, _)
BitAnd(a, b) ==
    IF a = 0 \/ b = 0 THEN 0
    ELSE (a % 2) * (b % 2) + 2 * BitAnd(a \div 2, b \div 2)

RECURSIVE BitOr(_, _)
BitOr(a, b) ==
    IF a = 0 THEN b
    ELSE IF b = 0 THEN a
    ELSE (IF (a % 2) + (b % 2) > 0 THEN 1 ELSE 0) + 2 * BitOr(a \div 2, b \div 2)

\* a << n in an unsigned integer of w bits
Shl(a, n, w) == (a * (2 ^ n)) % (2 ^ w)

\* a >> n of an unsigned integer
Shr(a, n) == a \div (2 ^ n)

\* the map with no entry
EmptyMap == [k \in {} |-> 0]

\* a sparse array: the entries that differ from `dflt`
MapGet(m, k, dflt) == IF k \in DOMAIN m THEN m[k] ELSE dflt

MapPut(m, k, v, dflt) ==
    LET dom == IF v = dflt THEN DOMAIN m \ {k} ELSE DOMAIN m \cup {k}
    IN  [j \in dom |-> IF j = k THEN v ELSE m[j]]

Min2(a, b) == IF a <= b THEN a ELSE b
Max2(a, b) == IF a >= b THEN a ELSE b

\* ------------------------------------------------ directions and visibility

\* GraphDirectionSet iterates its members in this order
DirSeq == <<"PosX", "NegX", "PosY", "NegY", "PosZ", "NegZ">>

Directions == {DirSeq[i] : i \in 1..Len(DirSeq)}

NONE == {}
ALL == Directions

opposite(d) ==
    CASE d = "PosX" -> "NegX"
      [] d = "NegX" -> "PosX"
      [] d = "PosY" -> "NegY"
      [] d = "NegY" -> "PosY"
      [] d = "PosZ" -> "NegZ"
      [] d = "NegZ" -> "PosZ"

DirVec(d) ==
    CASE d = "PosX" -> <<1, 0, 0>>
      [] d = "NegX" -> <<-1, 0, 0>>
      [] d = "PosY" -> <<0, 1, 0>>
      [] d = "NegY" -> <<0, -1, 0>>
      [] d = "PosZ" -> <<0, 0, 1>>
      [] d = "NegZ" -> <<0, 0, -1>>

\* the level-0 neighbour in direction d; every axis wraps inside the 256^3
\* window on its own
get_neighbor(c, d) ==
    [i \in 1..3 |-> (c[i] + DirVec(d)[i] + GRID_SIZE) % GRID_SIZE]

\* VisibilityData: for each entry direction the set of exit directions
DefaultVisibilityData == [d \in Directions |-> NONE]

TransparentVisibilityData == [d \in Directions |-> ALL]

\* an elbow that turns a sight line entering through the -X face up to +Y,
\* and a sight line entering through the +Y face out through -X
ElbowVisibilityData ==
    [d \in Directions |->
        IF d = "NegX" THEN {"PosY"} ELSE IF d = "PosY" THEN {"NegX"} ELSE NONE]

get_outgoing_directions(vd, incoming) == UNION {vd[d] : d \in incoming}

\* ---------------------------------------------------------- coord context
\* A coord context is a record
\*   [camera_section_coords, origin_region_coords, view_distance,
\*    world_height, bounds]
\* A LocalNodeIndex<L> is held as the node's coordinate triple at level L (the
\* section coordinates shifted right by L); a node of the bitmap is <<L, x, y, z>>.

Pow2(L) == 2 ^ L

LEVEL_3_NODES_PER_AXIS == 32

\* the frustum and fog volume as two nested boxes of section coordinates:
\* sections of the inner box are wholly inside, sections off the outer box
\* wholly outside, the shell between them is cut by the volume's surface
EverythingBounds ==
    [ilo |-> <<0, 0, 0>>, ihi |-> <<255, 255, 255>>,
     olo |-> <<0, 0, 0>>, ohi |-> <<255, 255, 255>>]

NothingBounds ==
    [ilo |-> <<1, 1, 1>>, ihi |-> <<0, 0, 0>>,
     olo |-> <<1, 1, 1>>, ohi |-> <<0, 0, 0>>]

\* a view volume that looks along +X from the camera section
AheadBounds(cam) ==
    [ilo |-> <<cam[1] + 1, 0, 0>>, ihi |-> <<255, 255, 255>>,
     olo |-> <<cam[1], 0, 0>>, ohi |-> <<255, 255, 255>>]

test_node(ctx, L, n) ==
    LET lo(i) == n[i] * Pow2(L)
        hi(i) == n[i] * Pow2(L) + Pow2(L) - 1
        b == ctx.bounds
    IN  IF \A i \in 1..3 : b.ilo[i] <= lo(i) /\ hi(i) <= b.ihi[i] THEN "Inside"
        ELSE IF \E i \in 1..3 : hi(i) < b.olo[i] \/ lo(i) > b.ohi[i] THEN "Outside"
        ELSE "Partial"

\* the first level-3 node of the sweep and the number of level-3 nodes swept on
\* each axis: the nodes the view window reaches
iter_start_index(ctx) ==
    [i \in 1..3 |->
        Shr(Max2(0, ctx.camera_section_coords[i] - ctx.view_distance), 3)]

level_3_node_iter_counts(ctx) ==
    [i \in 1..3 |->
        Shr(Min2(GRID_SIZE - 1, ctx.camera_section_coords[i] + ctx.view_distance), 3)
            - iter_start_index(ctx)[i] + 1]

\* the faces of section c that do not point out of the render-distance window,
\* the 256^3 grid or the world's height
get_valid_directions(ctx, c) ==
    {d \in Directions :
        LET n == [i \in 1..3 |-> c[i] + DirVec(d)[i]]
            cam == ctx.camera_section_coords
        IN  /\ \A i \in 1..3 :
                /\ 0 <= n[i] /\ n[i] <= GRID_SIZE - 1
                /\ n[i] - cam[i] <= ctx.view_distance
                /\ cam[i] - n[i] <= ctx.view_distance
            /\ n[2] <= ctx.world_height - 1}

\* ------------------------------------------------------- linear bit octree
\* The bitmap is the set of nodes whose whole range of bits has been set.

LinearBitOctree_set(bits, L, n) == bits \cup {<<L, n[1], n[2], n[3]>>}

LinearBitOctree_get(bits, c) ==
    \E L \in 0..3 : <<L, Shr(c[1], L), Shr(c[2], L), Shr(c[3], L)>> \in bits

LinearBitOctree_clear(bits) == {}

iter_lower_nodes(n) ==
    {<<2 * n[1] + a, 2 * n[2] + b, 2 * n[3] + c>> : a \in 0..1, b \in 0..1, c \in 0..1}

\* ------------------------------------------------------- frustum/fog pass

\* the descent that drops a leaf the volume's surface cuts
RECURSIVE check_node_DropPartialLeaf(_, _, _, _)
check_node_DropPartialLeaf(bits, L, n, ctx) ==
    LET r == test_node(ctx, L, n)
    IN  IF r = "Outside" THEN bits
        ELSE IF r = "Inside" THEN LinearBitOctree_set(bits, L, n)
        ELSE IF L = 0 THEN bits
        ELSE bits \cup UNION {check_node_DropPartialLeaf({}, L - 1, c, ctx) :
                                 c \in iter_lower_nodes(n)}

RECURSIVE check_node(_, _, _, _)
check_node(bits, L, n, ctx) ==
    LET r == test_node(ctx, L, n)
    IN  IF r = "Outside" THEN bits
        ELSE IF r = "Inside" THEN LinearBitOctree_set(bits, L, n)
        ELSE IF L = 0 THEN LinearBitOctree_set(bits, L, n)
        ELSE bits \cup UNION {check_node({}, L - 1, c, ctx) : c \in iter_lower_nodes(n)}

frustum_and_fog_cull(bits, ctx) ==
    LET start == iter_start_index(ctx)
        counts == level_3_node_iter_counts(ctx)
        node(xo, yo, zo) ==
            <<(start[1] + xo) % LEVEL_3_NODES_PER_AXIS,
              (start[2] + yo) % LEVEL_3_NODES_PER_AXIS,
              (start[3] + zo) % LEVEL_3_NODES_PER_AXIS>>
    IN  bits \cup UNION {check_node({}, 3, node(xo, yo, zo), ctx) :
                            xo \in 0..(counts[1] - 1),
                            yo \in 0..(counts[2] - 1),
                            zo \in 0..(counts[3] - 1)}

\* ------------------------------------------------------------ region.rs

SECTIONS_IN_REGION == 256
REGIONS_IN_GRAPH == 65536

REGION_COORD_SHIFT == <<3, 2, 3>>
REGION_MASK == <<248, 252, 248>>

LRI_X_MASK_SINGLE == 248
LRI_Y_MASK_SINGLE == 252
LRI_Z_MASK_SINGLE == 248
LRI_X_MASK_SHIFT_LEFT == 8
LRI_Y_MASK_SHIFT_LEFT == 3
LRI_Z_MASK_SHIFT_RIGHT == 3

\* LocalRegionIndex::from_local_section. In the source expression
\*   (coord & masks << left_shifts) >> right_shifts
\* the shift binds tighter than `&`: the masks are shifted, not the masked
\* coordinates. Lanes are u16.
LocalRegionIndex_from_local_section(c) ==
    LET masks == <<Shl(LRI_X_MASK_SINGLE, LRI_X_MASK_SHIFT_LEFT, 16),
                   Shl(LRI_Y_MASK_SINGLE, LRI_Y_MASK_SHIFT_LEFT, 16),
                   Shl(LRI_Z_MASK_SINGLE, 0, 16)>>
        anded == [i \in 1..3 |-> BitAnd(c[i], masks[i])]
        lanes == <<Shr(anded[1], 0), Shr(anded[2], 0),
                   Shr(anded[3], LRI_Z_MASK_SHIFT_RIGHT)>>
    IN  BitOr(BitOr(lanes[1], lanes[2]), lanes[3])

RSI_X_MASK_SINGLE == 7
RSI_Y_MASK_SINGLE == 3
RSI_Z_MASK_SINGLE == 7
RSI_X_MASK_SHIFT == 5
RSI_Y_MASK_SHIFT == 0
RSI_Z_MASK_SHIFT == 2

\* RegionSectionIndex::from_local_section: coord & (masks << shifts), lanes u8
RegionSectionIndex_from_local_section(c) ==
    LET masks == <<Shl(RSI_X_MASK_SINGLE, RSI_X_MASK_SHIFT, 8),
                   Shl(RSI_Y_MASK_SINGLE, RSI_Y_MASK_SHIFT, 8),
                   Shl(RSI_Z_MASK_SINGLE, RSI_Z_MASK_SHIFT, 8)>>
        lanes == [i \in 1..3 |-> BitAnd(c[i], masks[i])]
    IN  BitOr(BitOr(lanes[1], lanes[2]), lanes[3])

UNDEFINED_REGION_COORDS == <<I32_MIN, I32_MIN, I32_MIN>>

\* the three render categories of a SectionFlagSet
AllSectionFlags == {"HasBlockGeometry", "HasAnimatedSprites", "HasBlockEntities"}

push_conditionally(vec, value, cond) == IF cond THEN Append(vec, value) ELSE vec

\* RegionRenderList::default()
DefaultRegionRenderList ==
    [region_coords |-> UNDEFINED_REGION_COORDS,
     sections_with_geometry |-> <<>>,
     sections_with_sprites |-> <<>>,
     sections_with_block_entities |-> <<>>]

add_section(list, section_flags, c) ==
    LET region_section_index == RegionSectionIndex_from_local_section(c)
    IN  [list EXCEPT
            !.sections_with_geometry =
                push_conditionally(@, region_section_index,
                                   "HasBlockGeometry" \in section_flags),
            !.sections_with_sprites =
                push_conditionally(@, region_section_index,
                                   "HasAnimatedSprites" \in section_flags),
            !.sections_with_block_entities =
                push_conditionally(@, region_section_index,
                                   "HasBlockEntities" \in section_flags)]

is_initialized(list) == list.region_coords # UNDEFINED_REGION_COORDS

initialize(list, region_coords) == [list EXCEPT !.region_coords = region_coords]

is_empty(list) ==
    Len(list.sections_with_geometry) + Len(list.sections_with_sprites)
        + Len(list.sections_with_block_entities) = 0

\* RegionRenderList::clear writing the zero vector where the sentinel belongs
RegionRenderList_clear_ZeroCoords(list) ==
    [region_coords |-> <<0, 0, 0>>,
     sections_with_geometry |-> <<>>,
     sections_with_sprites |-> <<>>,
     sections_with_block_entities |-> <<>>]

RegionRenderList_clear(list) ==
    [region_coords |-> UNDEFINED_REGION_COORDS,
     sections_with_geometry |-> <<>>,
     sections_with_sprites |-> <<>>,
     sections_with_block_entities |-> <<>>]

\* region_render_lists, the array of REGIONS_IN_GRAPH slots, is the record
\* [default, over]: slot i holds over[i] when i is in DOMAIN over and
\* `default` otherwise.
RegionGet(lists, i) == IF i \in DOMAIN lists.over THEN lists.over[i] ELSE lists.default

RegionPut(lists, i, v) ==
    LET dom == IF v = lists.default THEN DOMAIN lists.over \ {i}
               ELSE DOMAIN lists.over \cup {i}
    IN  [lists EXCEPT !.over = [j \in dom |-> IF j = i THEN v ELSE lists.over[j]]]

\* the array after init_default_in_place
DefaultRegionRenderLists == [default |-> DefaultRegionRenderList, over |-> EmptyMap]

\* global region coordinates of a section: in the source expression
\*   local_section_coord & REGION_MASK >> REGION_COORD_SHIFT
\* the shift binds tighter than `&`
global_region_coords(ctx, c) ==
    [i \in 1..3 |->
        ctx.origin_region_coords[i]
            + BitAnd(c[i], Shr(REGION_MASK[i], REGION_COORD_SHIFT[i]))]

\* touch_region without the first-encounter test: every touch registers
touch_region_AlwaysRegister(ord, lists, ctx, c) ==
    LET local_region_index == LocalRegionIndex_from_local_section(c)
        region_render_list == RegionGet(lists, local_region_index)
        coords == global_region_coords(ctx, c)
    IN  [ordered_region_indices |-> Append(ord, local_region_index),
         region_render_lists |->
             RegionPut(lists, local_region_index,
                       initialize(region_render_list, coords)),
         index |-> local_region_index,
         assert_ok |-> TRUE]

\* StagingRegionRenderLists::touch_region. The result carries the two fields
\* of the staging lists, the index of the slot handed back, and whether the
\* debug assertion of the else branch held.
touch_region(ord, lists, ctx, c) ==
    LET local_region_index == LocalRegionIndex_from_local_section(c)
        region_render_list == RegionGet(lists, local_region_index)
        coords == global_region_coords(ctx, c)
    IN  IF is_initialized(region_render_list)
        THEN [ordered_region_indices |-> Append(ord, local_region_index),
              region_render_lists |->
                  RegionPut(lists, local_region_index,
                            initialize(region_render_list, coords)),
              index |-> local_region_index,
              assert_ok |-> TRUE]
        ELSE [ordered_region_indices |-> ord,
              region_render_lists |-> lists,
              index |-> local_region_index,
              assert_ok |-> (coords = region_render_list.region_coords)]

RECURSIVE compile_render_lists(_, _, _)
compile_render_lists(ord, lists, results) ==
    IF ord = <<>> THEN results
    ELSE LET render_region_list == RegionGet(lists, Head(ord))
         IN  compile_render_lists(
                 Tail(ord), lists,
                 IF ~is_empty(render_region_list)
                 THEN Append(results, render_region_list)
                 ELSE results)

\* StagingRegionRenderLists::clear: every slot of the array is cleared
StagingRegionRenderLists_clear(ord, lists) ==
    LET d == RegionRenderList_clear(lists.default)
        keep == {i \in DOMAIN lists.over : RegionRenderList_clear(lists.over[i]) # d}
    IN  [ordered_region_indices |-> <<>>,
         region_render_lists |->
             [default |-> d,
              over |-> [i \in keep |-> RegionRenderList_clear(lists.over[i])]]]

\* ------------------------------------------------------------ graph/mod.rs

\* u8::div_ceil(2) - 1, in u8
max_height_traversal(world_height) == (((world_height + 1) \div 2) - 1 + 256) % 256

\* get_bfs_queue_max_size. The u32 products stay below 2^32 for every u8
\* argument; with section_render_distance = 0 the wrapped factor
\* (max_width_traversal - layer_index) is multiplied by 0.
get_bfs_queue_max_size(section_render_distance, world_height) ==
    LET mht == max_height_traversal(world_height)
        mwt == section_render_distance
        restricted == mht < mwt
        count0 == IF restricted THEN 0 ELSE 2
        layer_index == IF restricted THEN mwt - mht ELSE 1
        count1 == count0 + 4 * (mwt - layer_index) * (mwt + layer_index - 1)
    IN  count1 + mwt * 4

BFS_QUEUE_SIZE == get_bfs_queue_max_size(MAX_VIEW_DISTANCE, MAX_WORLD_HEIGHT)

VARIABLES
    \* Graph
    section_visibility_direction_sets,  \* sparse: local coords -> VisibilityData
    section_is_visible_bits,            \* FrustumFogCachedState
    incoming_directions,                \* BfsCachedState, sparse: coords -> set
    ordered_region_indices,             \* StagingRegionRenderLists
    region_render_lists,                \* StagingRegionRenderLists
    queue_1,
    queue_2,
    results,
    \* the call in progress
    pc,                                 \* "idle", "bfs" or "panicked"
    coord_context,                      \* argument of the current or last call
    use_occlusion_culling,              \* argument of the current or last call
    read_is_queue_1,                    \* read_queue_ref points at queue_1
    finished,
    \* the build: debug assertions compiled in or not
    debug_assertions,
    \* history of the current or last call
    popped,                             \* sections popped, in order
    bucketed,                           \* sections handed to add_section, in order
    traversed,                          \* the edges <<section, direction>> the
                                        \* loop over outgoing directions went through
    pass1_visible,                      \* the bitmap as the frustum/fog pass left it
    prev_results,                       \* `results` as it was when the call began
    repeat,                             \* same arguments as the call before, no
                                        \* set_section / remove_section in between
    fresh_output                        \* `results` is the output of a call and no
                                        \* section changed since

vars ==
    <<section_visibility_direction_sets, section_is_visible_bits,
      incoming_directions, ordered_region_indices, region_render_lists,
      queue_1, queue_2, results, pc, coord_context, use_occlusion_culling,
      read_is_queue_1, finished, debug_assertions, popped, bucketed,
      traversed, pass1_visible, prev_results, repeat, fresh_output>>

\* ----------------------------------------------------------------- inputs

CameraCandidates == {<<8, 32, 8>>, <<255, 32, 8>>}

OriginRegionCoords == <<-3, -1, 5>>

BoundsCandidates(cam) == {EverythingBounds, NothingBounds, AheadBounds(cam)}

Contexts ==
    UNION {{[camera_section_coords |-> cam,
             origin_region_coords |-> OriginRegionCoords,
             view_distance |-> r,
             world_height |-> MAX_WORLD_HEIGHT,
             bounds |-> b] :
                r \in 0..MaxViewDistance, b \in BoundsCandidates(cam)} :
           cam \in CameraCandidates}

\* world-space section coordinates handed to set_section / remove_section
SectionCoordCandidates == {<<8, 28, 8>>, <<9, 28, 8>>, <<-1, 28, 8>>}

VisibilityCandidates == {TransparentVisibilityData, ElbowVisibilityData}

\* ------------------------------------------------------------ the BFS pass

\* the two arms of the modifier exchanged
directions_modifier_Inverted(occlusion) == IF occlusion THEN ALL ELSE NONE

directions_modifier(occlusion) == IF occlusion THEN NONE ELSE ALL

\* the BFS loop without its visible-bit test
section_is_skipped_Never(bits, c) == FALSE

\* the `continue` of the BFS loop: a popped section whose visible bit is clear
\* is skipped
section_is_skipped(bits, c) == ~LinearBitOctree_get(bits, c)

\* the outgoing directions without the valid-direction mask
section_outgoing_directions_NoValidMask(vis, incoming, modifier, ctx, c) ==
    get_outgoing_directions(MapGet(vis, c, DefaultVisibilityData),
                            MapGet(incoming, c, NONE))
        \cup modifier

\* the outgoing directions without the modifier
section_outgoing_directions_NoModifier(vis, incoming, modifier, ctx, c) ==
    get_outgoing_directions(MapGet(vis, c, DefaultVisibilityData),
                            MapGet(incoming, c, NONE))
        \cap get_valid_directions(ctx, c)

section_outgoing_directions(vis, incoming, modifier, ctx, c) ==
    LET looked_up ==
            get_outgoing_directions(MapGet(vis, c, DefaultVisibilityData),
                                    MapGet(incoming, c, NONE))
        with_modifier == looked_up \cup modifier
    IN  with_modifier \cap get_valid_directions(ctx, c)

\* the neighbor loop that pushes the neighbor whatever its incoming entry holds
RECURSIVE enqueue_neighbors_AlwaysPush(_, _, _, _)
enqueue_neighbors_AlwaysPush(dirs, c, incoming, write_queue) ==
    IF dirs = <<>> THEN [incoming_directions |-> incoming, write_queue |-> write_queue]
    ELSE LET direction == Head(dirs)
             neighbor_index == get_neighbor(c, direction)
             neighbor_incoming_directions == MapGet(incoming, neighbor_index, NONE)
         IN  enqueue_neighbors_AlwaysPush(
                 Tail(dirs), c,
                 MapPut(incoming, neighbor_index,
                        neighbor_incoming_directions \cup {opposite(direction)},
                        NONE),
                 push_conditionally(write_queue, neighbor_index, TRUE))

\* the neighbor loop that records the direction of travel, not its opposite
RECURSIVE enqueue_neighbors_SameDirection(_, _, _, _)
enqueue_neighbors_SameDirection(dirs, c, incoming, write_queue) ==
    IF dirs = <<>> THEN [incoming_directions |-> incoming, write_queue |-> write_queue]
    ELSE LET direction == Head(dirs)
             neighbor_index == get_neighbor(c, direction)
             neighbor_incoming_directions == MapGet(incoming, neighbor_index, NONE)
             should_enqueue == neighbor_incoming_directions = NONE
         IN  enqueue_neighbors_SameDirection(
                 Tail(dirs), c,
                 MapPut(incoming, neighbor_index,
                        neighbor_incoming_directions \cup {direction},
                        NONE),
                 push_conditionally(write_queue, neighbor_index, should_enqueue))

\* the loop over the outgoing directions of section c, in iteration order:
\* dirs is the sequence of directions still to go; the result is the
\* incoming_directions array and the write queue afterwards
RECURSIVE enqueue_neighbors(_, _, _, _)
enqueue_neighbors(dirs, c, incoming, write_queue) ==
    IF dirs = <<>> THEN [incoming_directions |-> incoming, write_queue |-> write_queue]
    ELSE LET direction == Head(dirs)
             neighbor_index == get_neighbor(c, direction)
             current_incoming_direction == opposite(direction)
             neighbor_incoming_directions == MapGet(incoming, neighbor_index, NONE)
             should_enqueue == neighbor_incoming_directions = NONE
         IN  enqueue_neighbors(
                 Tail(dirs), c,
                 MapPut(incoming, neighbor_index,
                        neighbor_incoming_directions \cup {current_incoming_direction},
                        NONE),
                 push_conditionally(write_queue, neighbor_index, should_enqueue))

DirectionsInOrder(set) == SelectSeq(DirSeq, LAMBDA d : d \in set)

read_queue == IF read_is_queue_1 THEN queue_1 ELSE queue_2
write_queue == IF read_is_queue_1 THEN queue_2 ELSE queue_1

\* BfsCachedState::reset without the fill of incoming_directions
BfsCachedState_reset_KeepIncoming(incoming, ord, lists, q1, q2) ==
    LET staging == StagingRegionRenderLists_clear(ord, lists)
    IN  [incoming_directions |-> incoming,
         ordered_region_indices |-> staging.ordered_region_indices,
         region_render_lists |-> staging.region_render_lists,
         queue_1 |-> <<>>,
         queue_2 |-> <<>>]

\* BfsCachedState::reset
BfsCachedState_reset(incoming, ord, lists, q1, q2) ==
    LET staging == StagingRegionRenderLists_clear(ord, lists)
    IN  [incoming_directions |-> EmptyMap,
         ordered_region_indices |-> staging.ordered_region_indices,
         region_render_lists |-> staging.region_render_lists,
         queue_1 |-> <<>>,
         queue_2 |-> <<>>]

\* FrustumFogCachedState::reset
FrustumFogCachedState_reset(bits) == LinearBitOctree_clear(bits)

\* ---------------------------------------------------------------- actions

\* local coordinates of a world-space section coordinate: the i32 lanes are
\* cast to u8 and the Y offset is added in u8
LocalCoordsOf(section_coord) ==
    <<section_coord[1] % 256,
      ((section_coord[2] % 256) + Y_ADD_SECTIONS) % 256,
      section_coord[3] % 256>>

\* the first context and flag of the model; the history variables hold them
\* until a call is made
InitialContext ==
    [camera_section_coords |-> <<8, 32, 8>>,
     origin_region_coords |-> OriginRegionCoords,
     view_distance |-> 0,
     world_height |-> MAX_WORLD_HEIGHT,
     bounds |-> EverythingBounds]

Init ==
    /\ section_visibility_direction_sets = EmptyMap
    /\ section_is_visible_bits = {}
    /\ incoming_directions = EmptyMap
    /\ ordered_region_indices = <<>>
    /\ region_render_lists = DefaultRegionRenderLists
    /\ queue_1 = <<>>
    /\ queue_2 = <<>>
    /\ results = <<>>
    /\ pc = "idle"
    /\ coord_context = InitialContext
    /\ use_occlusion_culling = TRUE
    /\ read_is_queue_1 = TRUE
    /\ finished = FALSE
    /\ debug_assertions \in BOOLEAN
    /\ popped = <<>>
    /\ bucketed = <<>>
    /\ traversed = {}
    /\ pass1_visible = {}
    /\ prev_results = <<>>
    /\ repeat = FALSE
    /\ fresh_output = FALSE

\* Graph::set_section. The history of the last call is dropped: its output is
\* no longer the output for the sections as they are now.
set_section(section_coord, visibility_data) ==
    /\ pc = "idle"
    /\ section_visibility_direction_sets' =
           MapPut(section_visibility_direction_sets, LocalCoordsOf(section_coord),
                  visibility_data, DefaultVisibilityData)
    /\ fresh_output' = FALSE
    /\ coord_context' = InitialContext
    /\ use_occlusion_culling' = TRUE
    /\ popped' = <<>>
    /\ bucketed' = <<>>
    /\ traversed' = {}
    /\ pass1_visible' = {}
    /\ prev_results' = <<>>
    /\ repeat' = FALSE
    /\ UNCHANGED <<section_is_visible_bits, incoming_directions,
                   ordered_region_indices, region_render_lists, queue_1, queue_2,
                   results, pc, read_is_queue_1, finished, debug_assertions>>

remove_section(section_coord) == set_section(section_coord, DefaultVisibilityData)

\* cull_and_sort up to the first test of the BFS loop: results.clear(), the
\* frustum/fog pass, the seeding of the read queue and of the camera
\* section's incoming directions, `finished = true` of the first iteration
CullBegin(ctx, occlusion) ==
    /\ pc = "idle"
    /\ coord_context' = ctx
    /\ use_occlusion_culling' = occlusion
    /\ results' = <<>>
    /\ section_is_visible_bits' = frustum_and_fog_cull(section_is_visible_bits, ctx)
    /\ queue_1' = Append(queue_1, ctx.camera_section_coords)
    /\ incoming_directions' =
           MapPut(incoming_directions, ctx.camera_section_coords,
                  MapGet(incoming_directions, ctx.camera_section_coords, NONE) \cup ALL,
                  NONE)
    /\ read_is_queue_1' = TRUE
    /\ finished' = TRUE
    /\ pc' = "bfs"
    /\ popped' = <<>>
    /\ bucketed' = <<>>
    /\ traversed' = {}
    /\ pass1_visible' = section_is_visible_bits'
    /\ prev_results' = results
    /\ repeat' = (fresh_output /\ ctx = coord_context
                    /\ occlusion = use_occlusion_culling)
    /\ fresh_output' = FALSE
    /\ UNCHANGED <<section_visibility_direction_sets, ordered_region_indices,
                   region_render_lists, queue_2, debug_assertions>>

\* one iteration of `while let Some(..) = read_queue_ref.pop()`. The call
\* site hands add_section the section's coordinates and no flag set, so no
\* bucket is gated: the section goes to all three.
BfsPop ==
    /\ pc = "bfs"
    /\ read_queue # <<>>
    /\ LET c == Head(read_queue)
           rest == Tail(read_queue)
           touched == touch_region(ordered_region_indices, region_render_lists,
                                   coord_context, c)
       IN  /\ debug_assertions => touched.assert_ok
           /\ finished' = FALSE
           /\ popped' = Append(popped, c)
           /\ ordered_region_indices' = touched.ordered_region_indices
           /\ IF section_is_skipped(section_is_visible_bits, c)
              THEN /\ region_render_lists' = touched.region_render_lists
                   /\ queue_1' = IF read_is_queue_1 THEN rest ELSE queue_1
                   /\ queue_2' = IF read_is_queue_1 THEN queue_2 ELSE rest
                   /\ UNCHANGED <<incoming_directions, bucketed, traversed>>
              ELSE LET list == RegionGet(touched.region_render_lists, touched.index)
                       out == section_outgoing_directions(
                                  section_visibility_direction_sets,
                                  incoming_directions,
                                  directions_modifier(use_occlusion_culling),
                                  coord_context, c)
                       after == enqueue_neighbors(DirectionsInOrder(out), c,
                                                  incoming_directions, write_queue)
                   IN  /\ region_render_lists' =
                              RegionPut(touched.region_render_lists, touched.index,
                                        add_section(list, AllSectionFlags, c))
                       /\ bucketed' = Append(bucketed, c)
                       /\ traversed' = traversed \cup {<<c, d>> : d \in out}
                       /\ incoming_directions' = after.incoming_directions
                       /\ queue_1' = IF read_is_queue_1 THEN rest ELSE after.write_queue
                       /\ queue_2' = IF read_is_queue_1 THEN after.write_queue ELSE rest
    /\ UNCHANGED <<section_visibility_direction_sets, section_is_visible_bits,
                   results, pc, coord_context, use_occlusion_culling,
                   read_is_queue_1, debug_assertions, pass1_visible, prev_results,
                   repeat, fresh_output>>

\* a pop whose touch_region fails its debug assertion: the call panics
BfsPanic ==
    /\ pc = "bfs"
    /\ read_queue # <<>>
    /\ debug_assertions
    /\ ~touch_region(ordered_region_indices, region_render_lists, coord_context,
                     Head(read_queue)).assert_ok
    /\ pc' = "panicked"
    /\ popped' = Append(popped, Head(read_queue))
    /\ queue_1' = IF read_is_queue_1 THEN Tail(queue_1) ELSE queue_1
    /\ queue_2' = IF read_is_queue_1 THEN queue_2 ELSE Tail(queue_2)
    /\ finished' = FALSE
    /\ UNCHANGED <<section_visibility_direction_sets, section_is_visible_bits,
                   incoming_directions, ordered_region_indices, region_render_lists,
                   results, coord_context, use_occlusion_culling, read_is_queue_1,
                   debug_assertions, bucketed, traversed, pass1_visible,
                   prev_results, repeat, fresh_output>>

\* the read queue is drained after at least one pop: reset it, swap the two
\* references and start the next iteration of `while !finished`
BfsSwap ==
    /\ pc = "bfs"
    /\ read_queue = <<>>
    /\ ~finished
    /\ finished' = TRUE
    /\ read_is_queue_1' = ~read_is_queue_1
    /\ UNCHANGED <<section_visibility_direction_sets, section_is_visible_bits,
                   incoming_directions, ordered_region_indices, region_render_lists,
                   queue_1, queue_2, results, pc, coord_context,
                   use_occlusion_culling, debug_assertions, popped, bucketed,
                   traversed, pass1_visible, prev_results, repeat, fresh_output>>

\* an iteration that popped nothing ends the loop; cull_and_sort compiles the
\* render lists, resets both cached states and returns
CullReturn ==
    /\ pc = "bfs"
    /\ read_queue = <<>>
    /\ finished
    /\ results' = compile_render_lists(ordered_region_indices, region_render_lists,
                                       results)
    /\ LET cleared == BfsCachedState_reset(incoming_directions,
                                           ordered_region_indices,
                                           region_render_lists, queue_1, queue_2)
       IN  /\ incoming_directions' = cleared.incoming_directions
           /\ ordered_region_indices' = cleared.ordered_region_indices
           /\ region_render_lists' = cleared.region_render_lists
           /\ queue_1' = cleared.queue_1
           /\ queue_2' = cleared.queue_2
    /\ section_is_visible_bits' = FrustumFogCachedState_reset(section_is_visible_bits)
    /\ pc' = "idle"
    /\ read_is_queue_1' = TRUE
    /\ finished' = FALSE
    /\ fresh_output' = TRUE
    /\ UNCHANGED <<section_visibility_direction_sets, coord_context,
                   use_occlusion_culling, debug_assertions, popped, bucketed,
                   traversed, pass1_visible, prev_results, repeat>>

Next ==
    \/ \E c \in SectionCoordCandidates, v \in VisibilityCandidates : set_section(c, v)
    \/ \E c \in SectionCoordCandidates : remove_section(c)
    \/ \E ctx \in Contexts, occlusion \in BOOLEAN : CullBegin(ctx, occlusion)
    \/ BfsPop
    \/ BfsPanic
    \/ BfsSwap
    \/ CullReturn

Spec == Init /\ [][Next]_vars

\* once called, cull_and_sort keeps running: its steps are not held up
FairSpec == Spec /\ WF_vars(BfsPop \/ BfsPanic \/ BfsSwap \/ CullReturn)

\* ------------------------------------------------------------ properties

SeqSet(q) == {q[i] : i \in 1..Len(q)}

\* a call has returned and no section changed since: `results` is its output
Returned == pc = "idle" /\ fresh_output

Camera == coord_context.camera_section_coords

\* the sections inside the valid-direction window of a context
Window(ctx) ==
    {c \in {<<x, y, z>> :
                x \in (ctx.camera_section_coords[1] - ctx.view_distance)
                          ..(ctx.camera_section_coords[1] + ctx.view_distance),
                y \in (ctx.camera_section_coords[2] - ctx.view_distance)
                          ..(ctx.camera_section_coords[2] + ctx.view_distance),
                z \in (ctx.camera_section_coords[3] - ctx.view_distance)
                          ..(ctx.camera_section_coords[3] + ctx.view_distance)} :
        /\ \A i \in 1..3 : 0 <= c[i] /\ c[i] <= GRID_SIZE - 1
        /\ c[2] <= ctx.world_height - 1}

BucketEntries(list) ==
    SeqSet(list.sections_with_geometry) \cup SeqSet(list.sections_with_sprites)
        \cup SeqSet(list.sections_with_block_entities)

L1Distance(a, b) ==
    LET abs(v) == IF v < 0 THEN -v ELSE v
    IN  abs(a[1] - b[1]) + abs(a[2] - b[2]) + abs(a[3] - b[3])

\* C1: whenever no cull_and_sort call is in progress (so after every return)
\* every per-frame cache is in its ground state: no visible bit, no incoming
\* direction, both queues empty, no ordered region, every slot un-initialised
\* with three empty buckets.
C1_CachesGroundState ==
    pc = "idle" =>
        /\ section_is_visible_bits = {}
        /\ DOMAIN incoming_directions = {}
        /\ queue_1 = <<>>
        /\ queue_2 = <<>>
        /\ ordered_region_indices = <<>>
        /\ DOMAIN region_render_lists.over = {}
        /\ region_render_lists.default = DefaultRegionRenderList

\* a call that bucketed sections and skipped others has returned
C1_Witness == Returned /\ Len(bucketed) >= 2 /\ Len(popped) > Len(bucketed)

\* C2: a call with the arguments of the call before it, and no set_section or
\* remove_section in between, returns the output the call before it returned.
C2_Idempotent == (Returned /\ repeat) => results = prev_results

\* the second of two equal calls, each of which bucketed sections, has returned
C2_Witness == Returned /\ repeat /\ Len(bucketed) >= 2

\* C3: in an empty world, occlusion culling on, camera section passing the
\* frustum/fog test, the output is one region whose buckets hold the camera
\* section and nothing else.
C3_EmptyWorldOneRegion ==
    (/\ Returned
     /\ use_occlusion_culling
     /\ DOMAIN section_visibility_direction_sets = {}
     /\ LinearBitOctree_get(pass1_visible, Camera))
        => /\ Len(results) = 1
           /\ BucketEntries(results[1]) = {RegionSectionIndex_from_local_section(Camera)}
           /\ Len(results[1].sections_with_geometry) <= 1
           /\ Len(results[1].sections_with_sprites) <= 1
           /\ Len(results[1].sections_with_block_entities) <= 1

\* C4: every section handed to a region bucket had its visible bit set by the
\* frustum/fog pass of the same call, and every entry of a staging bucket or
\* of an output bucket is the region-section index of such a section.
C4_MembershipSound ==
    /\ \A i \in 1..Len(bucketed) : LinearBitOctree_get(pass1_visible, bucketed[i])
    /\ \A slot \in DOMAIN region_render_lists.over :
          \A e \in BucketEntries(region_render_lists.over[slot]) :
              \E i \in 1..Len(bucketed) :
                  /\ LocalRegionIndex_from_local_section(bucketed[i]) = slot
                  /\ RegionSectionIndex_from_local_section(bucketed[i]) = e
    /\ Returned =>
          \A k \in 1..Len(results) :
              \A e \in BucketEntries(results[k]) :
                  \E i \in 1..Len(bucketed) :
                      RegionSectionIndex_from_local_section(bucketed[i]) = e

\* a call in which one popped section was bucketed and another one skipped
C4_Witness == pc = "bfs" /\ Len(bucketed) >= 1 /\ Len(popped) > Len(bucketed)

\* the pairs <<section, entry direction>> at the end of a path from the camera
\* section: every section left is visible, and is left in a valid direction
\* that its visibility data permits for the direction the path entered it by
PermittedStep(p, d) ==
    /\ LinearBitOctree_get(pass1_visible, p[1])
    /\ d \in get_valid_directions(coord_context, p[1])
    /\ d \in MapGet(section_visibility_direction_sets, p[1], DefaultVisibilityData)[p[2]]

RECURSIVE PathEnds(_)
PathEnds(pairs) ==
    LET next == pairs \cup
                    {<<get_neighbor(pd[1][1], pd[2]), opposite(pd[2])>> :
                        pd \in {x \in pairs \X Directions : PermittedStep(x[1], x[2])}}
    IN  IF next = pairs THEN pairs ELSE PathEnds(next)

\* C5: with occlusion culling on, every bucketed section other than the camera
\* section is the end of such a path.
C5_ReachabilitySound ==
    (Returned /\ use_occlusion_culling) =>
        LET ends == PathEnds({<<Camera, d>> : d \in Directions})
        IN  \A i \in 1..Len(bucketed) :
                bucketed[i] # Camera => \E d \in Directions : <<bucketed[i], d>> \in ends

\* with occlusion culling on, a section two steps from the camera was bucketed
C5_Witness ==
    /\ Returned
    /\ use_occlusion_culling
    /\ \E i \in 1..Len(bucketed) : L1Distance(bucketed[i], Camera) >= 2

\* C6: with occlusion culling off and every section of the window transparent,
\* every section of the window whose visible bit was set is in a bucket of the
\* output.
C6_TransparentWindowComplete ==
    (/\ Returned
     /\ ~use_occlusion_culling
     /\ \A c \in Window(coord_context) :
            MapGet(section_visibility_direction_sets, c, DefaultVisibilityData)
                = TransparentVisibilityData)
        => \A c \in Window(coord_context) :
               LinearBitOctree_get(pass1_visible, c) =>
                   \E k \in 1..Len(results) :
                       RegionSectionIndex_from_local_section(c)
                           \in BucketEntries(results[k])

\* the region slots of a sequence of sections, each at its first occurrence
RECURSIVE FirstTouches(_, _)
FirstTouches(sections, seen) ==
    IF sections = <<>> THEN <<>>
    ELSE LET slot == LocalRegionIndex_from_local_section(Head(sections))
         IN  IF slot \in seen THEN FirstTouches(Tail(sections), seen)
             ELSE <<Head(sections)>> \o FirstTouches(Tail(sections), seen \cup {slot})

\* the sections whose pop was the first touch of a region that received a
\* bucketed section, in pop order
FirstTouchOfOutputRegions ==
    SelectSeq(FirstTouches(popped, {}),
              LAMBDA c :
                  \E i \in 1..Len(bucketed) :
                      LocalRegionIndex_from_local_section(bucketed[i])
                          = LocalRegionIndex_from_local_section(c))

\* C7: the i-th region of the output is the region of the i-th section whose
\* pop was the first to touch its region.
C7_RegionFirstTouchOrder ==
    Returned =>
        /\ Len(results) = Len(FirstTouchOfOutputRegions)
        /\ \A i \in 1..Len(results) :
              results[i].region_coords
                  = global_region_coords(coord_context, FirstTouchOfOutputRegions[i])

\* C8: ordered_region_indices never holds a region index twice, and no two
\* regions of the output are the same region.
C8_NoDuplicateRegions ==
    /\ \A i, j \in 1..Len(ordered_region_indices) :
          ordered_region_indices[i] = ordered_region_indices[j] => i = j
    /\ \A i, j \in 1..Len(results) :
          results[i].region_coords = results[j].region_coords => i = j

\* a call has popped two sections of one region
C8_Witness ==
    /\ Returned
    /\ \E i, j \in 1..Len(popped) :
          /\ i < j
          /\ LocalRegionIndex_from_local_section(popped[i])
                 = LocalRegionIndex_from_local_section(popped[j])

\* C9: neither queue ever holds more sections than get_bfs_queue_max_size gives
\* for the view distance and the world height of the call.
C9_QueueCapacity ==
    pc = "bfs" =>
        LET cap == get_bfs_queue_max_size(coord_context.view_distance,
                                          coord_context.world_height)
        IN  Len(queue_1) <= cap /\ Len(queue_2) <= cap

\* C10: every cull_and_sort call runs to completion and returns.
C10_CallReturns == (pc = "bfs") ~> (pc = "idle")

\* section c has an entry in a bucket of the output
InOutput(c) ==
    \E k \in 1..Len(results) :
        RegionSectionIndex_from_local_section(c) \in BucketEntries(results[k])

\* C11: with occlusion culling on, a visible camera section at x = c and every
\* section of the plane x = c + 1 holding the default (opaque) visibility
\* data, the output contains the camera section and no section with x > c.
C11_OpaqueWall ==
    (/\ Returned
     /\ use_occlusion_culling
     /\ LinearBitOctree_get(pass1_visible, Camera)
     /\ \A s \in DOMAIN section_visibility_direction_sets : s[1] # Camera[1] + 1)
        => /\ InOutput(Camera)
           /\ \A s \in SeqSet(bucketed) : s[1] > Camera[1] => ~InOutput(s)

\* C12: the frontier only grows through valid directions: every incoming
\* direction recorded for a section other than the camera came from a bucketed
\* neighbor through one of that neighbor's valid directions, every section that
\* was enqueued or has an incoming direction lies in the view window of the
\* call, and a camera at x = 255 reaches no section at x = 0.
C12_ValidDirectionsBoundFrontier ==
    pc = "bfs" =>
        /\ \A n \in DOMAIN incoming_directions : \A d \in incoming_directions[n] :
               n # Camera =>
                   /\ get_neighbor(n, d) \in SeqSet(bucketed)
                   /\ opposite(d) \in get_valid_directions(coord_context,
                                                           get_neighbor(n, d))
        /\ DOMAIN incoming_directions \subseteq Window(coord_context)
        /\ SeqSet(popped \o queue_1 \o queue_2) \subseteq Window(coord_context)
        /\ Camera[1] = GRID_SIZE - 1 =>
               \A n \in DOMAIN incoming_directions \cup SeqSet(popped \o queue_1 \o queue_2) :
                   n[1] # 0

\* a camera on the grid's +X face, occlusion culling off, has expanded
C12_Witness ==
    /\ pc = "bfs"
    /\ ~use_occlusion_culling
    /\ Camera[1] = GRID_SIZE - 1
    /\ coord_context.view_distance >= 1
    /\ "PosX" \notin get_valid_directions(coord_context, Camera)
    /\ \E e \in traversed : e[1] = Camera

NoDuplicates(q) == \A i, j \in 1..Len(q) : q[i] = q[j] => i = j

\* C13: during a call every section is pushed at most once, popped at most
\* once and handed to its region's buckets at most once; the pushed sections
\* are exactly the sections whose incoming entry is non-empty, so an entry
\* stays non-empty from the push until the reset.
C13_AtMostOnceEnqueue ==
    pc = "bfs" =>
        /\ NoDuplicates(popped \o queue_1 \o queue_2)
        /\ NoDuplicates(bucketed)
        /\ SeqSet(popped \o queue_1 \o queue_2) = DOMAIN incoming_directions
        /\ \A n \in DOMAIN incoming_directions : incoming_directions[n] # NONE

\* a second neighbor has expanded into a section that was already pushed
C13_Witness ==
    /\ pc = "bfs"
    /\ \E n \in DOMAIN incoming_directions :
           /\ n # Camera
           /\ Cardinality(incoming_directions[n]) >= 2

\* C14: for every edge the BFS went through, from s to its neighbor n in
\* direction d, incoming[n] holds d.opposite() until the reset, and incoming[n]
\* holds no direction that no traversal put there (the camera's ALL aside).
C14_DirectionOpposition ==
    pc = "bfs" =>
        /\ \A e \in traversed :
               opposite(e[2]) \in MapGet(incoming_directions,
                                         get_neighbor(e[1], e[2]), NONE)
        /\ \A n \in DOMAIN incoming_directions : \A d \in incoming_directions[n] :
               n = Camera \/ <<get_neighbor(n, d), opposite(d)>> \in traversed

\* an edge between two sections neither of which is the camera was traversed
C14_Witness ==
    /\ pc = "bfs"
    /\ \E e \in traversed : e[1] # Camera /\ get_neighbor(e[1], e[2]) # Camera

\* the level-3 nodes frustum_and_fog_cull sweeps for a context
SweptLevel3Nodes(ctx) ==
    LET start == iter_start_index(ctx)
        counts == level_3_node_iter_counts(ctx)
    IN  {<<(start[1] + xo) % LEVEL_3_NODES_PER_AXIS,
           (start[2] + yo) % LEVEL_3_NODES_PER_AXIS,
           (start[3] + zo) % LEVEL_3_NODES_PER_AXIS>> :
             xo \in 0..(counts[1] - 1),
             yo \in 0..(counts[2] - 1),
             zo \in 0..(counts[3] - 1)}

\* the 8^3 sections under a level-3 node
SectionsOfLevel3Node(n) ==
    {<<8 * n[1] + a, 8 * n[2] + b, 8 * n[3] + c>> :
        a \in 0..7, b \in 0..7, c \in 0..7}

\* the frustum/fog pass of the call has just finished
BoundsPassDone == pc = "bfs" /\ popped = <<>>

\* C15: at the end of frustum_and_fog_cull the visible bit of every section
\* under a swept level-3 node is set exactly when test_node of that section
\* alone, at level 0, is Inside or Partial, and no bit is set under a node the
\* sweep did not visit: the hierarchical descent gives the bitmap that testing
\* every section individually gives.
C15_BoundsPassEquivalence ==
    BoundsPassDone =>
        /\ \A n \in SweptLevel3Nodes(coord_context) :
               \A s \in SectionsOfLevel3Node(n) :
                   LinearBitOctree_get(section_is_visible_bits, s)
                       <=> test_node(coord_context, 0, s) \in {"Inside", "Partial"}
        /\ \A node \in section_is_visible_bits :
               <<Shr(node[2], 3 - node[1]), Shr(node[3], 3 - node[1]),
                 Shr(node[4], 3 - node[1])>> \in SweptLevel3Nodes(coord_context)

\* a pass that set leaves the volume's surface cuts, set a node above the
\* leaves wholesale, and left sections of a swept node clear
C15_Witness ==
    /\ BoundsPassDone
    /\ \E node \in section_is_visible_bits :
           node[1] = 0 /\ test_node(coord_context, 0, <<node[2], node[3], node[4]>>) = "Partial"
    /\ \E node \in section_is_visible_bits : node[1] >= 1
    /\ \E n \in SweptLevel3Nodes(coord_context) :
           test_node(coord_context, 3, n) = "Outside"

\* C16: touch_region registers a region on its first touch only: once a
\* section of a slot was popped the slot is initialised and its index is in
\* ordered_region_indices, and no later touch appends the index again.
C16_RegistersOnFirstTouch ==
    pc = "bfs" =>
        /\ \A s \in SeqSet(popped) :
               LET i == LocalRegionIndex_from_local_section(s)
               IN  /\ is_initialized(RegionGet(region_render_lists, i))
                   /\ i \in SeqSet(ordered_region_indices)
        /\ NoDuplicates(ordered_region_indices)

\* C17: every touch of a slot computes the same global region coordinates,
\* whichever section of the slot triggers it, and the debug assertion of
\* touch_region fails in no reachable state.
C17_RegionCoordsConsistent ==
    /\ pc # "panicked"
    /\ \A a, b \in SeqSet(popped) :
           LocalRegionIndex_from_local_section(a)
                   = LocalRegionIndex_from_local_section(b)
               => global_region_coords(coord_context, a)
                      = global_region_coords(coord_context, b)

\* the 8x4x8 region of a section
RegionOf(c) == <<Shr(c[1], 3), Shr(c[2], 2), Shr(c[3], 3)>>

\* C18: for the sections touch_region is called with,
\* LocalRegionIndex::from_local_section gives
\* ((x & 0xF8) << 8) | ((y & 0xFC) << 3) | ((z & 0xF8) >> 3), a value below
\* 65536, and two sections get the same slot exactly when they lie in the
\* same 8x4x8 region.
C18_LocalRegionIndexMapping ==
    /\ \A s \in SeqSet(popped) :
           /\ LocalRegionIndex_from_local_section(s)
                  = BitOr(BitOr(Shl(BitAnd(s[1], 248), 8, 16),
                                Shl(BitAnd(s[2], 252), 3, 16)),
                          Shr(BitAnd(s[3], 248), 3))
           /\ LocalRegionIndex_from_local_section(s) < REGIONS_IN_GRAPH
    /\ \A a, b \in SeqSet(popped) :
           LocalRegionIndex_from_local_section(a)
                   = LocalRegionIndex_from_local_section(b)
               <=> RegionOf(a) = RegionOf(b)

\* C19: for the sections add_section is called with,
\* RegionSectionIndex::from_local_section gives two distinct sections of one
\* region distinct indices, and the index depends only on
\* (x mod 8, y mod 4, z mod 8).
C19_RegionSectionIndexInjective ==
    /\ \A a, b \in SeqSet(bucketed) :
           (RegionOf(a) = RegionOf(b) /\ a # b)
               => RegionSectionIndex_from_local_section(a)
                      # RegionSectionIndex_from_local_section(b)
    /\ \A a \in SeqSet(bucketed) :
           RegionSectionIndex_from_local_section(a)
               = RegionSectionIndex_from_local_section(
                     <<a[1] % 8, a[2] % 4, a[3] % 8>>)

\* the directions the BFS left section s through
TraversedFrom(s) == {e[2] : e \in {t \in traversed : t[1] = s}}

\* C20: a section whose entry holds the default visibility data, as it does
\* after remove_section, is opaque: with occlusion culling on, popping it
\* enqueues no neighbor and adds no incoming direction, whatever directions it
\* was reached from and also when it is the camera section; with occlusion
\* culling off it expands into every valid direction.
C20_RemovedSectionIsOpaque ==
    pc = "bfs" =>
        \A s \in SeqSet(bucketed) :
            MapGet(section_visibility_direction_sets, s, DefaultVisibilityData)
                    = DefaultVisibilityData
                => /\ use_occlusion_culling => TraversedFrom(s) = {}
                   /\ ~use_occlusion_culling =>
                          TraversedFrom(s) = get_valid_directions(coord_context, s)

\* with occlusion culling on, a default section reached from a neighbor was
\* popped and handed to its bucket
C20_Witness ==
    /\ pc = "bfs"
    /\ use_occlusion_culling
    /\ \E s \in SeqSet(bucketed) :
           /\ s # Camera
           /\ MapGet(section_visibility_direction_sets, s, DefaultVisibilityData)
                  = DefaultVisibilityData
           /\ MapGet(incoming_directions, s, NONE) # NONE

\* the region slots that were touched and received a bucketed section
SlotsWithBucketedSection ==
    {LocalRegionIndex_from_local_section(s) : s \in SeqSet(bucketed)}

\* C21: the output holds no empty region and holds every touched region that
\* received a bucketed section: a region all of whose popped sections failed
\* the visible test is left out, and the regions that remain stand in the
\* order of their first touch, each with the entries of its bucketed sections.
C21_NoEmptyRegionInOutput ==
    Returned =>
        /\ \A k \in 1..Len(results) : ~is_empty(results[k])
        /\ Len(results) = Cardinality(SlotsWithBucketedSection)
        /\ \A k \in 1..Len(results) :
               /\ k <= Len(FirstTouchOfOutputRegions)
               /\ BucketEntries(results[k])
                      = {RegionSectionIndex_from_local_section(s) :
                            s \in {b \in SeqSet(bucketed) :
                                      LocalRegionIndex_from_local_section(b)
                                          = LocalRegionIndex_from_local_section(
                                                FirstTouchOfOutputRegions[k])}}

====
